---------------------------- MODULE Spec2Model ----------------------------
(***************************************************************************)
(* Cole-Vishkin emulator (cv.cpp, blocked revision): the recoloring rule   *)
(* compute_cv, the blocked three-phase run_chunk, and the coordinator      *)
(* cv_start_and_join_workers with one thread per chunk.                    *)
(*                                                                         *)
(* Representation.  A Color (size_t) is the set of its set-bit positions,  *)
(* a subset of 0..SizeBits-1, so that the full 64-bit width is kept.  An   *)
(* index or a loop counter (size_t) is the integer of least magnitude      *)
(* congruent to it modulo 2^SizeBits: a negative integer -d stands for     *)
(* 2^SizeBits - d, sums and differences are the integer ones, and the      *)
(* unsigned comparison is SizeLt.                                          *)
(***************************************************************************)
EXTENDS Integers, Sequences, FiniteSets, TLC

(* ------------------------------ bounds --------------------------------- *)

\* The longest ring the model runs; cpus ranges over 1..length.
MaxLen == 3

\* The largest number of rounds the model runs.
MaxRounds == 3

\* Input colors are 0..MaxColor, and HighColor.
MaxColor == 2

\* The arguments of the rule taken alone have their set bits among the
\* positions 0..RuleLowBits-1, CtzBits and CtzBits+1.
RuleLowBits == 2

\* One chunk run alone: the longest ring, the most chunks it is cut into and
\* the largest number of rounds.
MaxChunkRing == 5
MaxChunkCpus == 2
MaxChunkRounds == 4

\* The planner taken over every length: size_t arithmetic is arithmetic
\* modulo 2^width (64 on the Makefile's target, 32 on the 32-bit platforms
\* the source names); the planner is run at the width PlanBits, for every
\* length from 1 to 2^PlanBits - 1 and for cpus from 1 to MaxPlanCpus.
PlanBits == 4
MaxPlanCpus == 4

\* The documented thresholds: the longest ring run, as one chunk, on colors
\* of the documented widths, for up to MaxChunkRounds rounds.
MaxThresholdRing == 4

\* The whole call on rings of four nodes: the largest number of rounds.
MaxFourRounds == 2

\* The initializers: the longest array filled.
MaxFillLen == 3

\* cv_main: the longest array and the largest number of rounds among the
\* options.
MaxMainLen == 2
MaxMainRounds == 2

\* The simple run_chunk run alone on a chunk: the longest ring and the
\* largest number of rounds (the ring is cut into up to MaxChunkCpus chunks).
MaxSimpleRing == 4
MaxSimpleRounds == 3

\* The call made with any cpus >= 1, more than length too: the longest
\* ring, the most chunks and the largest number of rounds.
MaxCallLen == 2
MaxCallCpus == 3
MaxCallRounds == 2

\* A thread whose accesses leave its chunk never comes back (its body loop
\* runs on towards 2^SizeBits): the model follows such a run for StrayCap
\* calls that leave a chunk, the next one is the fault the run ends in.
StrayCap == 2

(* ------------------------- program constants --------------------------- *)

\* Width of size_t, the type of a color.
SizeBits == 64

\* Width of unsigned int, the operand type of __builtin_ctz.
CtzBits == 32

\* Round count for which the body loop is unrolled.
Specialized == 4

(* ------------------------------ colors --------------------------------- *)

RECURSIVE Pow2(_)
Pow2(n) == IF n = 0 THEN 1 ELSE 2 * Pow2(n - 1)

\* The color whose value is the number n (0 <= n < 128).
ToBits(n) == {k \in 0..6 : (n \div Pow2(k)) % 2 = 1}

\* The least element of a non-empty set of naturals.
MinOf(S) == CHOOSE k \in S : \A j \in S : k <= j

\* a ^ b on size_t.
Xor(a, b) == (a \ b) \cup (b \ a)

\* 1 & (c >> n), for 0 <= n < SizeBits.
Bit(c, n) == IF n \in c THEN 1 ELSE 0

\* The conversion of a size_t argument to the unsigned int parameter of
\* __builtin_ctz: the low CtzBits bits.
Truncate(x) == x \cap (0..(CtzBits - 1))

\* __builtin_ctz(0) is undefined.  The results the builds produce: bsf leaves
\* its zeroed destination (0), tzcnt returns the operand width (CtzBits).
CtzUndefined == {0, CtzBits}

\* The possible results of __builtin_ctz(xored), xored a size_t.
BuiltinCtz(xored) ==
    IF Truncate(xored) # {} THEN {MinOf(Truncate(xored))} ELSE CtzUndefined

\* A result with num shifted by two.
CvValueShifted(which, num) == ToBits(Bit(which, num) + 4 * num)

\* The value compute_cv stores into *which once num is known:
\* orig_bit | (num << 1), orig_bit = 1 & (*which >> num).
CvValue(which, num) == ToBits(Bit(which, num) + 2 * num)

\* A rule that takes orig_bit from *with.
compute_cv_of_with(which, with) ==
    {CvValue(with, num) : num \in BuiltinCtz(Xor(which, with))}

\* The values compute_cv(which, with) may store into *which.
compute_cv(which, with) ==
    {CvValue(which, num) : num \in BuiltinCtz(Xor(which, with))}

(* ---------------------------- size_t order ----------------------------- *)

\* a < b on size_t, a and b given by their representatives.
SizeLt(a, b) == IF (a < 0) = (b < 0) THEN a < b ELSE b < 0

\* a >= b on size_t.
SizeGe(a, b) == ~SizeLt(a, b)

(* ------------------------------ inputs --------------------------------- *)

\* 2^CtzBits: it differs from 0 in no bit that __builtin_ctz sees.
HighColor == {CtzBits}

InputColors == {ToBits(n) : n \in 0..MaxColor} \cup {HighColor}

\* No two cyclically adjacent entries are equal.
Proper(s, len) == \A k \in 0..(len - 1) : s[k] # s[(k + 1) % len]

(* -------------------------------- memory ------------------------------- *)

\* begin + off, an address in (or past) the array.
MemRef(t, off) == [kind |-> "mem", at |-> t.begin + off]

\* &following[k].
FolRef(k) == [kind |-> "fol", at |-> k]

\* The address lies in the array mem = begin[0 .. length-1].
InArray(mem, a) == a \in DOMAIN mem

\* What a read past the array may find: other data of the process.
HeapValues == InputColors

\* The values a read through ref may give: any when the address lies past
\* the array, none when it lies past the vector.
Vals(t, mem, ref) ==
    IF ref.kind = "fol"
    THEN IF ref.at < Len(t.following) THEN {t.following[ref.at + 1]} ELSE {}
    ELSE IF InArray(mem, ref.at) THEN {mem[ref.at]}
    ELSE HeapValues

\* The access leaves the array or the vector: undefined, a fault among its
\* outcomes.
Wild(t, mem, ref) ==
    IF ref.kind = "fol" THEN ~(ref.at < Len(t.following))
    ELSE ~InArray(mem, ref.at)

\* The access is to memory that is not the thread's own chunk
\* [begin, begin + length).
Strays(t, ref) ==
    ref.kind = "mem" /\ ~(t.begin <= ref.at /\ ref.at < t.begin + t.length)

\* What a failed assert(cond) leads to: the debug build aborts, the NDEBUG
\* build goes on.  A run that went on is an NDEBUG run from then on (bld is
\* "any" until the run has shown which build it is).
AssertOutcomes(cond, bld, what) ==
    IF cond THEN {[fault |-> "none", build |-> bld]}
    ELSE (IF bld \in {"any", "debug"}
          THEN {[fault |-> what, build |-> bld]} ELSE {})
         \cup (IF bld \in {"any", "ndebug"}
               THEN {[fault |-> "none", build |-> "ndebug"]} ELSE {})

\* Thread t, on the array mem, calls compute_cv(which, with), which and with
\* given as places, and goes on as `after`: the outcomes, each the thread,
\* the array, the fault if any and the build.  room says that a call leaving
\* the chunk may still go on (see StrayCap).
CvOutcomes(t, mem, bld, room, which, with, after) ==
    LET strays == Strays(t, which) \/ Strays(t, with)
        strayed == IF strays THEN t.stray + 1 ELSE t.stray
        segv == {[t |-> [t EXCEPT !.stray = strayed], mem |-> mem,
                  fault |-> "segv", build |-> bld]}
        written(new) ==
            [after EXCEPT !.stray = strayed,
                          !.following = IF which.kind = "fol"
                                        THEN [@ EXCEPT ![which.at + 1] = new]
                                        ELSE @]
        stored(new) ==
            IF which.kind = "mem" /\ InArray(mem, which.at)
            THEN [mem EXCEPT ![which.at] = new]
            ELSE mem
        pair(a, b) ==
            {IF o.fault = "none"
             THEN [t |-> written(new), mem |-> stored(new),
                   fault |-> "none", build |-> o.build]
             ELSE [t |-> [t EXCEPT !.stray = strayed], mem |-> mem,
                   fault |-> o.fault, build |-> o.build] :
                o \in AssertOutcomes(Xor(a, b) # {}, bld, "assert(xored)"),
                new \in compute_cv(a, b)}
        goes == UNION {pair(ab[1], ab[2]) :
                          ab \in Vals(t, mem, which) \X Vals(t, mem, with)}
    IN IF strays /\ ~room THEN segv
       ELSE IF Wild(t, mem, which) \/ Wild(t, mem, with) THEN segv \cup goes
       ELSE goes

(* ------------------------------- run_chunk ----------------------------- *)

\* A thread that has not been created.  no_specialize: the build defines
\* CV_NO_SPECIALIZE (the Makefile's builds do not).
Unborn ==
    [pc |-> "unborn", begin |-> 0, length |-> 0, following |-> <<>>,
     iterations |-> 0, completable_end |-> 0, e |-> 0, i |-> 0, p |-> 0,
     p_plus_1 |-> 0, p2 |-> 0, stray |-> 0, no_specialize |-> FALSE]

\* The thread as std::thread creates it: run_chunk(begin, length, following)
\* about to start.
Created(begin, len, following) ==
    [Unborn EXCEPT !.pc = "entry", !.begin = begin, !.length = len,
                   !.following = following]

\* The finish loop's test, p_plus_1 >= completable_end + 1: the next thing
\* is the assert at the head of its body, or the one after the loop.
FinishTest(t) ==
    IF SizeGe(t.p_plus_1, t.completable_end + 1)
    THEN [t EXCEPT !.pc = "assert_nonempty"]
    ELSE [t EXCEPT !.pc = "assert_empty"]

\* for (size_t p_plus_1 = length - 1 + 1; ...
EnterFinish(t) == FinishTest([t EXCEPT !.p_plus_1 = t.length - 1 + 1])

\* The body loop's test: p < completable_end.
BodyLoopCond(t, p) == SizeLt(p, t.completable_end)

\* for (size_t p = 0; p < completable_end; ++p) with, inside,
\* for (size_t i = iterations; i != 0; --i); the unrolled form has the same
\* four statements, numbered by i from 4 down to 1.
EnterBody(t) ==
    IF BodyLoopCond(t, 0) /\ t.iterations # 0
    THEN [t EXCEPT !.pc = "body", !.p = 0, !.i = t.iterations]
    ELSE EnterFinish(t)

\* for (size_t e = 1; e < iterations; ++e) with, inside,
\* for (size_t i = e; i != 0; --i).
EnterRampUp(t) ==
    IF 1 < t.iterations
    THEN [t EXCEPT !.pc = "rampup", !.e = 1, !.i = 1]
    ELSE EnterBody(t)

\* A run_chunk without its first test.
EntryOutcomesUnchecked(t, mem, bld) ==
    {[t |-> EnterRampUp([t EXCEPT !.iterations = Len(t.following),
                                  !.completable_end =
                                      t.length - Len(t.following)]),
      mem |-> mem, fault |-> "none", build |-> bld]}

\* The thread starts: if (0 == length) return; iterations and
\* completable_end (computed before the body loop from values that do not
\* change) are set.
EntryOutcomes(t, mem, bld) ==
    LET u == [t EXCEPT !.iterations = Len(t.following),
                       !.completable_end = t.length - Len(t.following)]
    IN {[t |-> IF 0 = t.length THEN [t EXCEPT !.pc = "done"]
               ELSE EnterRampUp(u),
         mem |-> mem, fault |-> "none", build |-> bld]}

\* A ramp-up that walks from front to back: for given e the calls are on
\* begin + 0, begin + 1, ..., begin + e - 1.
RampUpOutcomesAscending(t, mem, bld, room) ==
    LET after == IF t.i - 1 # 0 THEN [t EXCEPT !.i = t.i - 1]
                 ELSE IF t.e + 1 < t.iterations
                 THEN [t EXCEPT !.e = t.e + 1, !.i = t.e + 1]
                 ELSE EnterBody(t)
    IN CvOutcomes(t, mem, bld, room,
                  MemRef(t, t.e - t.i), MemRef(t, t.e - t.i + 1), after)

\* Ramp-up: compute_cv(begin + i - 1, begin + i), then --i, and at i == 0
\* ++e and the outer test.
RampUpOutcomes(t, mem, bld, room) ==
    LET after == IF t.i - 1 # 0 THEN [t EXCEPT !.i = t.i - 1]
                 ELSE IF t.e + 1 < t.iterations
                 THEN [t EXCEPT !.e = t.e + 1, !.i = t.e + 1]
                 ELSE EnterBody(t)
    IN CvOutcomes(t, mem, bld, room,
                  MemRef(t, t.i - 1), MemRef(t, t.i), after)

\* An unrolled body whose third statement repeats the second's first
\* argument.
BodyWhichSlip(t) ==
    IF Specialized = t.iterations /\ ~t.no_specialize
    THEN CASE t.i = 4 -> t.p + 3
           [] t.i = 3 -> t.p + 2
           [] t.i = 2 -> t.p + 2
           [] t.i = 1 -> t.p + 0
    ELSE t.p + (t.i - 1)

\* The offset of `which` in the body's statement i for position p: the
\* unrolled form spells out p + 3, p + 2, p + 1, p + 0.
BodyWhich(t) ==
    IF Specialized = t.iterations /\ ~t.no_specialize
    THEN CASE t.i = 4 -> t.p + 3
           [] t.i = 3 -> t.p + 2
           [] t.i = 2 -> t.p + 1
           [] t.i = 1 -> t.p + 0
    ELSE t.p + (t.i - 1)

\* The offset of `with` in the same statement.
BodyWith(t) ==
    IF Specialized = t.iterations /\ ~t.no_specialize
    THEN CASE t.i = 4 -> t.p + 4
           [] t.i = 3 -> t.p + 3
           [] t.i = 2 -> t.p + 2
           [] t.i = 1 -> t.p + 1
    ELSE t.p + t.i

\* Body: one compute_cv of the window at p, then --i, and at i == 0 ++p and
\* the test p < completable_end.
BodyOutcomes(t, mem, bld, room) ==
    LET after == IF t.i - 1 # 0 THEN [t EXCEPT !.i = t.i - 1]
                 ELSE IF BodyLoopCond(t, t.p + 1)
                 THEN [t EXCEPT !.p = t.p + 1, !.i = t.iterations]
                 ELSE EnterFinish(t)
    IN CvOutcomes(t, mem, bld, room,
                  MemRef(t, BodyWhich(t)), MemRef(t, BodyWith(t)), after)

\* An assert of run_chunk on `following`, with where the thread goes on.
AssertStep(t, mem, bld, cond, what, after) ==
    {[t |-> IF o.fault = "none" THEN after ELSE t, mem |-> mem,
      fault |-> o.fault, build |-> o.build] :
        o \in AssertOutcomes(cond, bld, what)}

\* Finish, head of an iteration: p = p_plus_1 - 1,
\* assert(!following.empty()), p2 = p and the sweep's test.
FinishAssertOutcomes(t, mem, bld) ==
    LET p == t.p_plus_1 - 1
    IN AssertStep(t, mem, bld, t.following # <<>>,
                  "assert(!following.empty())",
                  [t EXCEPT !.p = p, !.p2 = p,
                            !.pc = IF SizeLt(p, t.length - 1)
                                   THEN "sweep" ELSE "last"])

\* Finish, the sweep: compute_cv(begin + p2, begin + (p2 + 1)), ++p2.
FinishSweepOutcomes(t, mem, bld, room) ==
    LET after == [t EXCEPT !.p2 = t.p2 + 1,
                           !.pc = IF SizeLt(t.p2 + 1, t.length - 1)
                                  THEN "sweep" ELSE "last"]
    IN CvOutcomes(t, mem, bld, room,
                  MemRef(t, t.p2), MemRef(t, t.p2 + 1), after)

\* A last position updated from the array's cell after the chunk, the first
\* cell when the chunk ends the array, instead of the snapshot's front.
FinishLastOutcomesLive(t, mem, bld, room) ==
    LET after == [t EXCEPT !.i = 1,
                           !.pc = IF 1 < Len(t.following)
                                  THEN "propagate" ELSE "erase"]
        next == IF InArray(mem, t.begin + t.length) THEN t.length
                ELSE 0 - t.begin
    IN CvOutcomes(t, mem, bld, room,
                  MemRef(t, t.length - 1), MemRef(t, next), after)

\* Finish: compute_cv(begin + (length - 1), &following.front()), then i = 1
\* and the test i < following.size().
FinishLastOutcomes(t, mem, bld, room) ==
    LET after == [t EXCEPT !.i = 1,
                           !.pc = IF 1 < Len(t.following)
                                  THEN "propagate" ELSE "erase"]
    IN CvOutcomes(t, mem, bld, room,
                  MemRef(t, t.length - 1), FolRef(0), after)

\* Finish: compute_cv(&following[i - 1], &following[i]), ++i.
FinishPropagateOutcomes(t, mem, bld, room) ==
    LET after == [t EXCEPT !.i = t.i + 1,
                           !.pc = IF t.i + 1 < Len(t.following)
                                  THEN "propagate" ELSE "erase"]
    IN CvOutcomes(t, mem, bld, room, FolRef(t.i - 1), FolRef(t.i), after)

\* An erase of the first entry: following.erase(following.begin()).
FinishEraseOutcomesFirst(t, mem, bld) ==
    IF t.following = <<>>
    THEN {[t |-> t, mem |-> mem, fault |-> "segv", build |-> bld]}
    ELSE {[t |-> FinishTest([t EXCEPT !.following = Tail(@),
                                      !.p_plus_1 = t.p_plus_1 - 1]),
           mem |-> mem, fault |-> "none", build |-> bld]}

\* Finish: following.erase(--following.end()), the last entry goes; then
\* --p_plus_1 and the loop's test.  On an empty vector the erase is undefined.
FinishEraseOutcomes(t, mem, bld) ==
    IF t.following = <<>>
    THEN {[t |-> t, mem |-> mem, fault |-> "segv", build |-> bld]}
    ELSE {[t |-> FinishTest([t EXCEPT
                                !.following = SubSeq(@, 1, Len(@) - 1),
                                !.p_plus_1 = t.p_plus_1 - 1]),
           mem |-> mem, fault |-> "none", build |-> bld]}

\* assert(following.empty()) and the return.
FinishExitOutcomes(t, mem, bld) ==
    AssertStep(t, mem, bld, t.following = <<>>, "assert(following.empty())",
               [t EXCEPT !.pc = "done"])

\* One step of run_chunk, whatever its position.
ThreadOutcomes(t, mem, bld, room) ==
    CASE t.pc = "entry" -> EntryOutcomes(t, mem, bld)
      [] t.pc = "rampup" -> RampUpOutcomes(t, mem, bld, room)
      [] t.pc = "body" -> BodyOutcomes(t, mem, bld, room)
      [] t.pc = "assert_nonempty" -> FinishAssertOutcomes(t, mem, bld)
      [] t.pc = "sweep" -> FinishSweepOutcomes(t, mem, bld, room)
      [] t.pc = "last" -> FinishLastOutcomes(t, mem, bld, room)
      [] t.pc = "propagate" -> FinishPropagateOutcomes(t, mem, bld, room)
      [] t.pc = "erase" -> FinishEraseOutcomes(t, mem, bld)
      [] t.pc = "assert_empty" -> FinishExitOutcomes(t, mem, bld)
      [] OTHER -> {}

(* ----------------------- run_chunk, the simple form -------------------- *)

\* The thread of the simple revision: run_chunk(begin, end, following) about
\* to start; end is begin + length.
SimpleCreated(begin, end, following) ==
    [Unborn EXCEPT !.pc = "simple_entry", !.begin = begin,
                   !.length = end - begin, !.following = following]

\* while (!following.empty()), then for (ptr = begin + 1; ptr != end; ...):
\* p2 is ptr - begin.
SimpleWhile(t) ==
    IF t.following = <<>> THEN [t EXCEPT !.pc = "done"]
    ELSE [t EXCEPT !.p2 = 1,
                   !.pc = IF 1 # t.length THEN "simple_sweep"
                          ELSE "simple_last"]

\* if (begin == end) return;
SimpleEntryOutcomes(t, mem, bld) ==
    {[t |-> IF t.length = 0 THEN [t EXCEPT !.pc = "done"] ELSE SimpleWhile(t),
      mem |-> mem, fault |-> "none", build |-> bld]}

\* compute_cv(ptr - 1, ptr), ++ptr and the test ptr != end.
SimpleSweepOutcomes(t, mem, bld, room) ==
    LET after == [t EXCEPT !.p2 = t.p2 + 1,
                           !.pc = IF t.p2 + 1 # t.length THEN "simple_sweep"
                                  ELSE "simple_last"]
    IN CvOutcomes(t, mem, bld, room,
                  MemRef(t, t.p2 - 1), MemRef(t, t.p2), after)

\* compute_cv(end - 1, &following.front()), then i = 1 and the test
\* i < following.size().
SimpleLastOutcomes(t, mem, bld, room) ==
    LET after == [t EXCEPT !.i = 1,
                           !.pc = IF 1 < Len(t.following)
                                  THEN "simple_propagate" ELSE "simple_erase"]
    IN CvOutcomes(t, mem, bld, room,
                  MemRef(t, t.length - 1), FolRef(0), after)

\* compute_cv(&following[i - 1], &following[i]), ++i.
SimplePropagateOutcomes(t, mem, bld, room) ==
    LET after == [t EXCEPT !.i = t.i + 1,
                           !.pc = IF t.i + 1 < Len(t.following)
                                  THEN "simple_propagate" ELSE "simple_erase"]
    IN CvOutcomes(t, mem, bld, room, FolRef(t.i - 1), FolRef(t.i), after)

\* following.erase(--following.end()) and the while's test; the vector is
\* not empty here.
SimpleEraseOutcomes(t, mem, bld) ==
    {[t |-> SimpleWhile([t EXCEPT !.following = SubSeq(@, 1, Len(@) - 1)]),
      mem |-> mem, fault |-> "none", build |-> bld]}

\* One step of the simple run_chunk.
SimpleOutcomes(t, mem, bld, room) ==
    CASE t.pc = "simple_entry" -> SimpleEntryOutcomes(t, mem, bld)
      [] t.pc = "simple_sweep" -> SimpleSweepOutcomes(t, mem, bld, room)
      [] t.pc = "simple_last" -> SimpleLastOutcomes(t, mem, bld, room)
      [] t.pc = "simple_propagate" ->
             SimplePropagateOutcomes(t, mem, bld, room)
      [] t.pc = "simple_erase" -> SimpleEraseOutcomes(t, mem, bld)
      [] OTHER -> {}

\* How the simple run_chunk, run alone from c = [t, mem, fault, build], may
\* end: the array it leaves and the fault, "none" when it returns.
RECURSIVE SimpleEnds(_)
SimpleEnds(c) ==
    IF c.fault # "none" \/ c.t.pc = "done"
    THEN {[mem |-> c.mem, fault |-> c.fault]}
    ELSE UNION {SimpleEnds(d) :
                   d \in SimpleOutcomes(c.t, c.mem, c.build,
                                        c.t.stray < StrayCap)}

(* ------------------------------- planning ------------------------------ *)

\* border[i] as the planner computes it: (length * i) / cpus.  Within the
\* bounds length * i stays far below 2^SizeBits.
BorderAt(len, n, i) == (len * i) \div n

\* A snapshot taken from the chunk's own first index.
SnapshotStartOwn(b, i) == b[i]

\* Where chunk i's snapshot starts: pos = border[i + 1].
SnapshotStart(b, i) == b[i + 1]

\* One iteration of the snapshot's inner loop, c = [vec, pos]:
\* if (pos >= length) pos -= length; push_back(begin[pos]); then ++pos.
CaptureOne(mem, len, c) ==
    LET pos == IF SizeGe(c.pos, len) THEN c.pos - len ELSE c.pos
    IN [vec |-> Append(c.vec, mem[pos]), pos |-> pos + 1]

\* The whole snapshot: the inner loop, for (j = 0; j < rounds; ++j), from c.
RECURSIVE CaptureAll(_, _, _, _)
CaptureAll(mem, len, n, c) ==
    IF Len(c.vec) < n THEN CaptureAll(mem, len, n, CaptureOne(mem, len, c))
    ELSE c.vec

\* The arrays a thread may leave when it runs alone from c = [t, mem, fault,
\* build] to its return; none when it dies.
RECURSIVE Finals(_)
Finals(c) ==
    IF c.fault # "none" THEN {}
    ELSE IF c.t.pc = "done" THEN {c.mem}
    ELSE UNION {Finals(d) :
                   d \in ThreadOutcomes(c.t, c.mem, c.build,
                                        c.t.stray < StrayCap)}

\* cv_start_and_join_workers(mem, len, 1, n): one chunk, the whole array,
\* its snapshot taken from border[1] = len on.
SoloFinals(mem, len, n) ==
    Finals([t |-> Created(0, BorderAt(len, 1, 1),
                          CaptureAll(mem, len, n,
                                     [vec |-> <<>>,
                                      pos |-> BorderAt(len, 1, 1)])),
            mem |-> mem, fault |-> "none", build |-> "any"])

(* -------------------------------- state -------------------------------- *)

VARIABLES
    length,   \* cv_start_and_join_workers: length
    cpus,     \* cv_start_and_join_workers: cpus
    rounds,   \* cv_start_and_join_workers: rounds
    input,    \* the array as it was handed to cv_start_and_join_workers
    store,    \* the array begin[0 .. length-1]
    border,   \* std::vector<size_t> border, indexed from 0
    buf,      \* std::vector<std::vector<size_t>> buf, indexed from 0
    co,       \* the coordinator: its position and loop variables
    wk,       \* the worker threads: per thread, run_chunk's position and locals
    fault,    \* how the process died, "none" while it lives
    build     \* "ndebug" once the run has relied on assert being compiled out

vars == <<length, cpus, rounds, input, store, border, buf, co, wk, fault, build>>

params == <<length, cpus, rounds, input>>

\* The rings cv_main may hand over: proper by the initializer's contract.
Rings(len) == {s \in [0..(len - 1) -> InputColors] : Proper(s, len)}

\* cv_try_parse accepts 1 <= cpus <= 256, cpus <= length, rounds >= 1.  The
\* state is the one at the first border computation: border holds its first
\* entry, i is 1.
Init ==
    /\ length \in 2..MaxLen
    /\ cpus \in 1..length
    /\ rounds \in 1..MaxRounds
    /\ input \in Rings(length)
    /\ store = input
    /\ border = (0 :> 0)
    /\ buf = <<>>
    /\ co = [pc |-> "borders", i |-> 1, j |-> 0, pos |-> 0]
    /\ wk = [w \in 0..(cpus - 1) |-> Unborn]
    /\ fault = "none"
    /\ build = "any"

(* ------------------------------ coordinator ---------------------------- *)

\* for (size_t i = 1; i < 1 + cpus; ++i): one iteration, with the abort on
\* a border that jumps down.
ComputeBorder ==
    /\ fault = "none"
    /\ co.pc = "borders"
    /\ LET i == co.i
           b == BorderAt(length, cpus, i)
       IN /\ border' = (i :> b) @@ border
          /\ IF SizeLt(b, border[i - 1])
             THEN /\ fault' = "abort"
                  /\ co' = co
             ELSE /\ fault' = fault
                  /\ co' = IF i + 1 < 1 + cpus
                           THEN [co EXCEPT !.i = i + 1]
                           ELSE [pc |-> "snapshots", i |-> 0, j |-> 0,
                                 pos |-> SnapshotStart(border', 0)]
    /\ UNCHANGED <<params, store, buf, wk, build>>

\* A snapshot loop that stops after the first chunk.
CaptureLoopCondFirst(i) == i < 1

\* The condition of the snapshot loop: i < cpus.
CaptureLoopCond(i) == i < cpus

\* One iteration of the inner loop over j (rounds >= 1, so there is one for
\* every i); buf.emplace_back() goes with the first, the assert on the size,
\* ++i and the outer loop's test with the last.
CaptureSnapshot ==
    /\ fault = "none"
    /\ co.pc = "snapshots"
    /\ LET i == co.i
           old == IF co.j = 0 THEN <<>> ELSE buf[i]
           c == CaptureOne(store, length, [vec |-> old, pos |-> co.pos])
       IN /\ buf' = (i :> c.vec) @@ buf
          /\ co' = IF co.j + 1 < rounds
                   THEN [co EXCEPT !.j = co.j + 1, !.pos = c.pos]
                   ELSE IF CaptureLoopCond(i + 1)
                   THEN [co EXCEPT !.i = i + 1, !.j = 0,
                                   !.pos = SnapshotStart(border, i + 1)]
                   ELSE [pc |-> "launch", i |-> 0, j |-> 0, pos |-> 0]
    /\ UNCHANGED <<params, store, border, wk, fault, build>>

\* threads.emplace_back(run_chunk, begin + border[i],
\*                      border[i + 1] - border[i], std::move(buf[i])):
\* the thread gets the vector, buf[i] is left moved-from (empty).
LaunchWorker ==
    /\ fault = "none"
    /\ co.pc = "launch"
    /\ LET i == co.i
       IN /\ wk' = [wk EXCEPT ![i] = Created(border[i],
                                            border[i + 1] - border[i],
                                            buf[i])]
          /\ buf' = [buf EXCEPT ![i] = <<>>]
          /\ co' = IF i + 1 < cpus
                   THEN [co EXCEPT !.i = i + 1]
                   ELSE [co EXCEPT !.pc = "join", !.i = 0]
    /\ UNCHANGED <<params, store, border, fault, build>>

\* A join that returns without waiting for the thread to finish.
JoinWorkerEarly ==
    /\ fault = "none"
    /\ co.pc = "join"
    /\ co' = IF co.i + 1 < cpus
             THEN [co EXCEPT !.i = co.i + 1]
             ELSE [co EXCEPT !.pc = "returned"]
    /\ UNCHANGED <<params, store, border, buf, wk, fault, build>>

\* for (std::thread& t : threads) t.join(): one join.
JoinWorker ==
    /\ fault = "none"
    /\ co.pc = "join"
    /\ wk[co.i].pc = "done"
    /\ co' = IF co.i + 1 < cpus
             THEN [co EXCEPT !.i = co.i + 1]
             ELSE [co EXCEPT !.pc = "returned"]
    /\ UNCHANGED <<params, store, border, buf, wk, fault, build>>

(* --------------------------------- workers ----------------------------- *)

RECURSIVE StraysUpTo(_)
StraysUpTo(w) == IF w < 0 THEN 0 ELSE wk[w].stray + StraysUpTo(w - 1)

\* The calls, of all threads, that have left the caller's chunk so far.
TotalStrays == StraysUpTo(cpus - 1)

\* Thread w takes one of the outcomes of its step.
Take(w, outcomes) ==
    /\ fault = "none"
    /\ \E o \in outcomes :
        /\ wk' = [wk EXCEPT ![w] = o.t]
        /\ store' = o.mem
        /\ fault' = o.fault
        /\ build' = o.build
    /\ UNCHANGED <<params, border, buf, co>>

Room == TotalStrays < StrayCap

WorkerEntry(w) ==
    wk[w].pc = "entry" /\ Take(w, EntryOutcomes(wk[w], store, build))

RampUp(w) ==
    wk[w].pc = "rampup" /\ Take(w, RampUpOutcomes(wk[w], store, build, Room))

Body(w) ==
    wk[w].pc = "body" /\ Take(w, BodyOutcomes(wk[w], store, build, Room))

FinishAssert(w) ==
    /\ wk[w].pc = "assert_nonempty"
    /\ Take(w, FinishAssertOutcomes(wk[w], store, build))

FinishSweep(w) ==
    /\ wk[w].pc = "sweep"
    /\ Take(w, FinishSweepOutcomes(wk[w], store, build, Room))

FinishLast(w) ==
    /\ wk[w].pc = "last"
    /\ Take(w, FinishLastOutcomes(wk[w], store, build, Room))

FinishPropagate(w) ==
    /\ wk[w].pc = "propagate"
    /\ Take(w, FinishPropagateOutcomes(wk[w], store, build, Room))

FinishErase(w) ==
    wk[w].pc = "erase" /\ Take(w, FinishEraseOutcomes(wk[w], store, build))

FinishExit(w) ==
    /\ wk[w].pc = "assert_empty"
    /\ Take(w, FinishExitOutcomes(wk[w], store, build))

\* One step of thread w, wherever it is in run_chunk.
WorkerStep(w) ==
    \/ WorkerEntry(w)
    \/ RampUp(w)
    \/ Body(w)
    \/ FinishAssert(w)
    \/ FinishSweep(w)
    \/ FinishLast(w)
    \/ FinishPropagate(w)
    \/ FinishErase(w)
    \/ FinishExit(w)

Next ==
    \/ ComputeBorder
    \/ CaptureSnapshot
    \/ LaunchWorker
    \/ JoinWorker
    \/ \E w \in 0..(cpus - 1) : WorkerEntry(w)
    \/ \E w \in 0..(cpus - 1) : RampUp(w)
    \/ \E w \in 0..(cpus - 1) : Body(w)
    \/ \E w \in 0..(cpus - 1) : FinishAssert(w)
    \/ \E w \in 0..(cpus - 1) : FinishSweep(w)
    \/ \E w \in 0..(cpus - 1) : FinishLast(w)
    \/ \E w \in 0..(cpus - 1) : FinishPropagate(w)
    \/ \E w \in 0..(cpus - 1) : FinishErase(w)
    \/ \E w \in 0..(cpus - 1) : FinishExit(w)

Spec == Init /\ [][Next]_vars

(* -------------------------- the rule taken alone ----------------------- *)

RuleColors == SUBSET ((0..(RuleLowBits - 1)) \cup {CtzBits, CtzBits + 1})

\* Three neighbours a, b, c on a ring, a # b and b # c.
RuleInit ==
    /\ length = 3
    /\ cpus = 1
    /\ rounds = 1
    /\ input \in {s \in [0..2 -> RuleColors] : s[0] # s[1] /\ s[1] # s[2]}
    /\ store = input
    /\ border = <<>>
    /\ buf = <<>>
    /\ co = [pc |-> "rule", done |-> {}]
    /\ wk = <<>>
    /\ fault = "none"
    /\ build = "any"

\* compute_cv(&store[k], &input[k + 1]), store[k] still the input's.
ApplyRule(k) ==
    /\ k \notin co.done
    /\ \E new \in compute_cv(input[k], input[k + 1]) :
        store' = [store EXCEPT ![k] = new]
    /\ co' = [co EXCEPT !.done = @ \cup {k}]
    /\ UNCHANGED <<params, border, buf, wk, fault, build>>

RuleNext == \E k \in 0..1 : ApplyRule(k)

SpecRule == RuleInit /\ [][RuleNext]_vars

(* ------------------------ the planner on every length ----------------- *)

\* (length * i) / cpus in size_t arithmetic of width PlanBits: the product
\* wraps.
BorderWrapped(len, n, i) == ((len * i) % Pow2(PlanBits)) \div n

\* A ring of len nodes colored 0, 1, 0, 1, ..., the last node 2 where it
\* would repeat the first.
PlanRing(len) ==
    [k \in 0..(len - 1) |->
        ToBits(IF k = len - 1 /\ k % 2 = 0 THEN 2 ELSE k % 2)]

\* cv_start_and_join_workers called with any length and any cpus >= 1, also
\* cpus > length.
PlanInit ==
    /\ length \in 1..(Pow2(PlanBits) - 1)
    /\ cpus \in 1..MaxPlanCpus
    /\ rounds \in 1..MaxRounds
    /\ input = PlanRing(length)
    /\ store = input
    /\ border = (0 :> 0)
    /\ buf = <<>>
    /\ co = [pc |-> "borders", i |-> 1, j |-> 0, pos |-> 0]
    /\ wk = [w \in 0..(cpus - 1) |-> Unborn]
    /\ fault = "none"
    /\ build = "any"

\* A border loop without the check of the borders' order.
PlanBorderUnchecked ==
    /\ fault = "none"
    /\ co.pc = "borders"
    /\ LET i == co.i
       IN /\ border' = (i :> BorderWrapped(length, cpus, i)) @@ border
          /\ co' = IF i + 1 < 1 + cpus
                   THEN [co EXCEPT !.i = i + 1]
                   ELSE [pc |-> "snapshots", i |-> 0, j |-> 0,
                         pos |-> SnapshotStart(border', 0)]
    /\ UNCHANGED <<params, store, buf, wk, fault, build>>

\* for (size_t i = 1; i < 1 + cpus; ++i): one iteration, the product taken
\* in size_t; abort() on a border that jumps down (the assert before it
\* never fails: its condition is a string literal).
PlanBorder ==
    /\ fault = "none"
    /\ co.pc = "borders"
    /\ LET i == co.i
           b == BorderWrapped(length, cpus, i)
       IN /\ border' = (i :> b) @@ border
          /\ IF b < border[i - 1]
             THEN /\ fault' = "abort"
                  /\ co' = co
             ELSE /\ fault' = fault
                  /\ co' = IF i + 1 < 1 + cpus
                           THEN [co EXCEPT !.i = i + 1]
                           ELSE [pc |-> "snapshots", i |-> 0, j |-> 0,
                                 pos |-> SnapshotStart(border', 0)]
    /\ UNCHANGED <<params, store, buf, wk, build>>

\* The coordinator up to the creation of the last thread.
PlanNext ==
    \/ PlanBorder
    \/ CaptureSnapshot
    \/ LaunchWorker

SpecPlan == PlanInit /\ [][PlanNext]_vars

(* --------------------------- one chunk run alone ----------------------- *)

\* The snapshot cv_start_and_join_workers captures for chunk i of the ring
\* mem cut into n chunks.
SnapshotOf(mem, len, n, r, i) ==
    CaptureAll(mem, len, r, [vec |-> <<>>, pos |-> BorderAt(len, n, i + 1)])

\* The thread cv_start_and_join_workers creates for chunk i.
ThreadOf(mem, len, n, r, i) ==
    Created(BorderAt(len, n, i), BorderAt(len, n, i + 1) - BorderAt(len, n, i),
            SnapshotOf(mem, len, n, r, i))

\* The coordinator has captured every snapshot and created thread co.i, the
\* only one that runs.
ChunkInit ==
    /\ length \in 2..MaxChunkRing
    /\ cpus \in 1..MaxChunkCpus
    /\ cpus <= length
    /\ rounds \in 1..MaxChunkRounds
    /\ input \in Rings(length)
    /\ store = input
    /\ border = [i \in 0..cpus |-> BorderAt(length, cpus, i)]
    /\ \E w \in 0..(cpus - 1) :
        /\ co = [pc |-> "chunk", i |-> w]
        /\ buf = [i \in 0..(cpus - 1) |->
                     IF i = w THEN <<>>
                     ELSE SnapshotOf(input, length, cpus, rounds, i)]
        /\ wk = [i \in 0..(cpus - 1) |->
                    IF i = w THEN ThreadOf(input, length, cpus, rounds, i)
                    ELSE Unborn]
    /\ fault = "none"
    /\ build = "any"

ChunkNext ==
    \/ \E w \in 0..(cpus - 1) : WorkerEntry(w)
    \/ \E w \in 0..(cpus - 1) : RampUp(w)
    \/ \E w \in 0..(cpus - 1) : Body(w)
    \/ \E w \in 0..(cpus - 1) : FinishAssert(w)
    \/ \E w \in 0..(cpus - 1) : FinishSweep(w)
    \/ \E w \in 0..(cpus - 1) : FinishLast(w)
    \/ \E w \in 0..(cpus - 1) : FinishPropagate(w)
    \/ \E w \in 0..(cpus - 1) : FinishErase(w)
    \/ \E w \in 0..(cpus - 1) : FinishExit(w)

SpecChunk == ChunkInit /\ [][ChunkNext]_vars

\* The ways the simple run_chunk may end on the chunk and the snapshot that
\* the thread of SpecChunk was created with.
SimpleEndsOfChunk ==
    LET t == ThreadOf(input, length, cpus, rounds, co.i)
    IN SimpleEnds([t |-> SimpleCreated(t.begin, t.begin + t.length,
                                       t.following),
                   mem |-> input, fault |-> "none", build |-> "any"])

(* ---------------------- one chunk, the simple run_chunk --------------- *)

\* The thread the simple revision's cv_start_and_join_workers creates for
\* chunk i: run_chunk(begin + border[i], begin + border[i + 1], buf[i]).
SimpleThreadOf(mem, len, n, r, i) ==
    SimpleCreated(BorderAt(len, n, i), BorderAt(len, n, i + 1),
                  SnapshotOf(mem, len, n, r, i))

\* The coordinator of the simple revision has captured every snapshot and
\* created thread co.i, the only one that runs.
SimpleInit ==
    /\ length \in 2..MaxSimpleRing
    /\ cpus \in 1..MaxChunkCpus
    /\ cpus <= length
    /\ rounds \in 1..MaxSimpleRounds
    /\ input \in Rings(length)
    /\ store = input
    /\ border = [i \in 0..cpus |-> BorderAt(length, cpus, i)]
    /\ \E w \in 0..(cpus - 1) :
        /\ co = [pc |-> "chunk", i |-> w]
        /\ buf = [i \in 0..(cpus - 1) |->
                     IF i = w THEN <<>>
                     ELSE SnapshotOf(input, length, cpus, rounds, i)]
        /\ wk = [i \in 0..(cpus - 1) |->
                    IF i = w
                    THEN SimpleThreadOf(input, length, cpus, rounds, i)
                    ELSE Unborn]
    /\ fault = "none"
    /\ build = "any"

SimpleEntry(w) ==
    /\ wk[w].pc = "simple_entry"
    /\ Take(w, SimpleEntryOutcomes(wk[w], store, build))

SimpleSweep(w) ==
    /\ wk[w].pc = "simple_sweep"
    /\ Take(w, SimpleSweepOutcomes(wk[w], store, build, Room))

SimpleLast(w) ==
    /\ wk[w].pc = "simple_last"
    /\ Take(w, SimpleLastOutcomes(wk[w], store, build, Room))

SimplePropagate(w) ==
    /\ wk[w].pc = "simple_propagate"
    /\ Take(w, SimplePropagateOutcomes(wk[w], store, build, Room))

SimpleErase(w) ==
    /\ wk[w].pc = "simple_erase"
    /\ Take(w, SimpleEraseOutcomes(wk[w], store, build))

SimpleNext ==
    \/ \E w \in 0..(cpus - 1) : SimpleEntry(w)
    \/ \E w \in 0..(cpus - 1) : SimpleSweep(w)
    \/ \E w \in 0..(cpus - 1) : SimpleLast(w)
    \/ \E w \in 0..(cpus - 1) : SimplePropagate(w)
    \/ \E w \in 0..(cpus - 1) : SimpleErase(w)

SpecSimple == SimpleInit /\ [][SimpleNext]_vars

(* ------------------------ the documented thresholds ------------------- *)

\* The widths of the --rounds table of cv_about: "1: 3 bits or less",
\* "2: 4 bits or less", "3: 8 bits or less".
DocumentedWidths == {3, 4, 8}

\* 0, 1, the colors 2^(w-1) of exactly w bits for the documented widths w,
\* 2^CtzBits and 2^(CtzBits+1).
ThresholdColors ==
    {{}, {0}, HighColor, {CtzBits + 1}}
        \cup {{w - 1} : w \in DocumentedWidths}

\* cv_start_and_join_workers with cpus = 1, its one thread created: the
\* whole ring is the chunk.
ThresholdInit ==
    /\ length \in 2..MaxThresholdRing
    /\ cpus = 1
    /\ rounds \in 1..MaxChunkRounds
    /\ input \in {s \in [0..(length - 1) -> ThresholdColors] :
                      Proper(s, length)}
    /\ store = input
    /\ border = [i \in 0..cpus |-> BorderAt(length, cpus, i)]
    /\ co = [pc |-> "chunk", i |-> 0]
    /\ buf = [i \in 0..(cpus - 1) |-> <<>>]
    /\ wk = [i \in 0..(cpus - 1) |->
                ThreadOf(input, length, cpus, rounds, i)]
    /\ fault = "none"
    /\ build = "any"

SpecThreshold == ThresholdInit /\ [][ChunkNext]_vars

(* ----------------------- the call on rings of four ------------------- *)

\* The ring 1, 2, 1, 2.
Golden == [k \in 0..3 |-> ToBits(IF k % 2 = 0 THEN 1 ELSE 2)]

\* The proper rings of as many nodes over the colors 0, 1 and 2.
FourRings ==
    {s \in [DOMAIN Golden -> {ToBits(n) : n \in 0..2}] :
        Proper(s, Cardinality(DOMAIN Golden))}

\* cv_start_and_join_workers on such a ring, as one chunk or as two.
FourInit ==
    /\ length = Cardinality(DOMAIN Golden)
    /\ cpus \in 1..2
    /\ rounds \in 1..MaxFourRounds
    /\ input \in FourRings
    /\ store = input
    /\ border = (0 :> 0)
    /\ buf = <<>>
    /\ co = [pc |-> "borders", i |-> 1, j |-> 0, pos |-> 0]
    /\ wk = [w \in 0..(cpus - 1) |-> Unborn]
    /\ fault = "none"
    /\ build = "any"

SpecFour == FourInit /\ [][Next]_vars

(* ---------------------- the call with any cpus >= 1 ------------------- *)

\* cv_start_and_join_workers called with any cpus >= 1 on a proper ring (a
\* single node is one): with cpus > length some chunks are empty.
CallInit ==
    /\ length \in 1..MaxCallLen
    /\ cpus \in 1..MaxCallCpus
    /\ rounds \in 1..MaxCallRounds
    /\ input \in {s \in [0..(length - 1) -> InputColors] :
                      length >= 2 => Proper(s, length)}
    /\ store = input
    /\ border = (0 :> 0)
    /\ buf = <<>>
    /\ co = [pc |-> "borders", i |-> 1, j |-> 0, pos |-> 0]
    /\ wk = [w \in 0..(cpus - 1) |-> Unborn]
    /\ fault = "none"
    /\ build = "any"

SpecCall == CallInit /\ [][Next]_vars

(* ----------------------------- the initializers ----------------------- *)

\* What distrib(generator), or xorshift128plus(), may return: the claim is
\* about every sequence of values.
Generated == InputColors

\* fill_rnd_minstd / fill_rnd_xorshift128plus (the two differ in the
\* generator only) called on an array of `length` cells in either build of
\* the Makefile; store holds the cells written so far.
FillInit ==
    /\ length \in 1..MaxFillLen
    /\ cpus = 1
    /\ rounds = 1
    /\ input = <<>>
    /\ store = <<>>
    /\ border = <<>>
    /\ buf = <<>>
    /\ co = [pc |-> "first", i |-> 0]
    /\ wk = <<>>
    /\ fault = "none"
    /\ build \in {"debug", "ndebug"}

\* After the for loop: in the debug build the while loop's test
\* *last == *begin, last = begin + (length - 1); the NDEBUG build returns.
FillAfterLoop(mem) ==
    IF build = "debug" /\ mem[length - 1] = mem[0] THEN "fixup" ELSE "filled"

\* The for loop's test i < length, with what follows the loop.
FillLoop(mem, i) ==
    IF i < length THEN [pc |-> "fill", i |-> i]
    ELSE [pc |-> FillAfterLoop(mem), i |-> i]

\* begin[0] = distrib(generator); and i = 1.
FillFirst ==
    /\ co.pc = "first"
    /\ \E v \in Generated :
        /\ store' = (0 :> v)
        /\ co' = FillLoop(store', 1)
    /\ UNCHANGED <<params, border, buf, wk, fault, build>>

\* begin[i] = distrib(generator); in the debug build --i when the value is
\* that of begin[i - 1]; then ++i.
FillDraw ==
    /\ co.pc = "fill"
    /\ \E v \in Generated :
        /\ store' = (co.i :> v) @@ store
        /\ co' = IF build = "debug" /\ v = store[co.i - 1]
                 THEN FillLoop(store', co.i - 1 + 1)
                 ELSE FillLoop(store', co.i + 1)
    /\ UNCHANGED <<params, border, buf, wk, fault, build>>

\* Debug build only: *last = distrib(generator) in while (*last == *begin).
FillFixup ==
    /\ co.pc = "fixup"
    /\ \E v \in Generated :
        /\ store' = [store EXCEPT ![length - 1] = v]
        /\ co' = [co EXCEPT !.pc = FillAfterLoop(store')]
    /\ UNCHANGED <<params, border, buf, wk, fault, build>>

FillNext == FillFirst \/ FillDraw \/ FillFixup

SpecFill == FillInit /\ [][FillNext]_vars

\* The initializer has returned.
Filled == co.pc = "filled"

(* -------------------------------- cv_main ------------------------------ *)

\* The options cv_try_parse returns no error for: 1 <= cpus <= 256,
\* cpus <= length <= 2^31 (length > 1 << 31 is refused, written here as
\* (length - 1) / 2 >= 2^30), rounds >= 1.
Accepted(len, n, r) ==
    /\ ~(n < 1 \/ n > 256)
    /\ ~(len < n)
    /\ ~((len - 1) \div 2 >= Pow2(30))
    /\ ~(r < 1)

\* cv_main after cv_try_parse and malloc, about to call the initializer, in
\* either build of the Makefile.
MainInit ==
    /\ length \in 0..MaxMainLen
    /\ cpus \in 0..MaxMainLen
    /\ rounds \in 0..MaxMainRounds
    /\ Accepted(length, cpus, rounds)
    /\ input = <<>>
    /\ store = <<>>
    /\ border = <<>>
    /\ buf = <<>>
    /\ co = [pc |-> "first", i |-> 0]
    /\ wk = [w \in 0..(cpus - 1) |-> Unborn]
    /\ fault = "none"
    /\ build \in {"debug", "ndebug"}

\* cv_start_and_join_workers(arr, opts.length, opts.cpus, opts.rounds) on
\* the array as the initializer left it, up to border.emplace_back(0).
StartWorkers ==
    /\ Filled
    /\ input' = store
    /\ border' = (0 :> 0)
    /\ co' = [pc |-> "borders", i |-> 1, j |-> 0, pos |-> 0]
    /\ UNCHANGED <<length, cpus, rounds, store, buf, wk, fault, build>>

MainNext ==
    \/ FillFirst
    \/ FillDraw
    \/ FillFixup
    \/ StartWorkers
    \/ Next

SpecMain == MainInit /\ [][MainNext]_vars

(* ------------------------ calls made one after another ---------------- *)

\* How run_chunk, run alone from c = [t, mem, fault, build], may end: the
\* array it leaves and the fault, "none" when it returns.
RECURSIVE Ends(_)
Ends(c) ==
    IF c.fault # "none" \/ c.t.pc = "done"
    THEN {[mem |-> c.mem, fault |-> c.fault]}
    ELSE UNION {Ends(d) : d \in ThreadOutcomes(c.t, c.mem, c.build,
                                               c.t.stray < StrayCap)}

\* cv_start_and_join_workers(orig, len, n, r) in the schedule where thread
\* i runs from its creation to its return before thread i + 1 starts: how
\* the call may end, from the ends reached with threads 0..i-1.  The
\* snapshots are the ones captured from orig.
RECURSIVE CallEndsFrom(_, _, _, _, _, _)
CallEndsFrom(ends, orig, len, n, r, i) ==
    IF i = n THEN ends
    ELSE CallEndsFrom(
             UNION {IF e.fault # "none" THEN {e}
                    ELSE Ends([t |-> ThreadOf(orig, len, n, r, i),
                               mem |-> e.mem, fault |-> "none",
                               build |-> "any"]) : e \in ends},
             orig, len, n, r, i + 1)

CallEnds(orig, len, n, r) ==
    CallEndsFrom({[mem |-> orig, fault |-> "none"]}, orig, len, n, r, 0)

\* The call with r1 rounds and then, on the array it returned, the call with
\* r2 rounds.
TwoCallEnds(orig, len, n, r1, r2) ==
    UNION {IF e.fault # "none" THEN {e} ELSE CallEnds(e.mem, len, n, r2) :
              e \in CallEnds(orig, len, n, r1)}

(* ------------------------------ reference ------------------------------ *)

\* RecolorRule of the specification, on full-width colors: b the lowest set
\* bit of which XOR with, o bit b of which, the result o | (b << 1).
RecolorRule(which, with) ==
    LET b == MinOf(Xor(which, with))
    IN ToBits(Bit(which, b) + 2 * b)

\* One synchronous round on the ring s of length len.
SyncRound(s, len) ==
    [k \in 0..(len - 1) |-> RecolorRule(s[k], s[(k + 1) % len])]

\* n synchronous rounds.
RECURSIVE SyncRounds(_, _, _)
SyncRounds(s, len, n) ==
    IF n = 0 THEN s ELSE SyncRounds(SyncRound(s, len), len, n - 1)

\* The colors ring position q may hold once it has had k rounds applied:
\* compute_cv on a color it may hold after k - 1 rounds and one its ring
\* successor may hold after k - 1 rounds.
RECURSIVE Levels(_, _)
Levels(q, k) ==
    IF k = 0 THEN {input[q]}
    ELSE UNION {compute_cv(a, b) :
                   a \in Levels(q, k - 1),
                   b \in Levels((q + 1) % length, k - 1)}

\* The thread is about to call compute_cv.
AtCall(t) == t.pc \in {"rampup", "body", "sweep", "last", "propagate"}

\* The arguments of the call of compute_cv that thread t, at a call, is
\* about to make.
NextCall(t) ==
    CASE t.pc = "rampup" ->
             [which |-> MemRef(t, t.i - 1), with |-> MemRef(t, t.i)]
      [] t.pc = "body" ->
             [which |-> MemRef(t, BodyWhich(t)),
              with |-> MemRef(t, BodyWith(t))]
      [] t.pc = "sweep" ->
             [which |-> MemRef(t, t.p2), with |-> MemRef(t, t.p2 + 1)]
      [] t.pc = "last" ->
             [which |-> MemRef(t, t.length - 1), with |-> FolRef(0)]
      [] t.pc = "propagate" ->
             [which |-> FolRef(t.i - 1), with |-> FolRef(t.i)]

\* The place exists: a cell of the array, an entry of thread w's snapshot.
Placed(w, ref) ==
    IF ref.kind = "mem" THEN InArray(store, ref.at)
    ELSE 0 <= ref.at /\ ref.at < Len(wk[w].following)

\* The ring position a place of thread w stands for: the cell's index, and
\* (border[w + 1] + j) mod length for entry j of the snapshot.
PosOf(w, ref) ==
    IF ref.kind = "mem" THEN ref.at ELSE (border[w + 1] + ref.at) % length

\* The color now at a place of thread w.
ColorAt(w, ref) ==
    IF ref.kind = "mem" THEN store[ref.at] ELSE wk[w].following[ref.at + 1]

\* cv_start_and_join_workers has returned.
Returned == co.pc = "returned"

\* Thread i has been created.
Launched(i) == wk[i].pc # "unborn"

\* The number of bits needed to write the color c, 0 for the color 0.
Width(c) == IF c = {} THEN 0 ELSE 1 + CHOOSE k \in c : \A j \in c : j <= k

\* The number a color below 128 stands for.
Value(c) == CHOOSE n \in 0..127 : ToBits(n) = c

\* The least w >= 1 such that every color of the ring s is below 2^w.
RingWidth(s) ==
    LET widths == {Width(s[k]) : k \in DOMAIN s} \cup {1}
    IN CHOOSE w \in widths : \A v \in widths : v <= w

\* The six colors 0..5.
SixColors == {ToBits(n) : n \in 0..5}

\* The --rounds table: n rounds are enough for initial colors of w bits.
RoundsSuffice(n, w) ==
    \/ n >= 1 /\ w <= 3
    \/ n >= 2 /\ w <= 4
    \/ n >= 3 /\ w <= 8
    \/ n >= 4

\* The border loop is over: border[0 .. cpus] is complete.
Planned == co.pc # "borders"

\* The snapshot of chunk i as the specification defines it: entry j is the
\* pre-run color at (border[i+1] + j) mod length.
ExpectedSnapshot(i) ==
    [j \in 1..rounds |-> input[(border[i + 1] + (j - 1)) % length]]

(* -------------------------------- claims ------------------------------- *)

\* C1: once cv_start_and_join_workers returns, every store[i] is the color
\* position i has after `rounds` synchronous ring-wide rounds of RecolorRule.
C1_Postcondition ==
    Returned => store = SyncRounds(input, length, rounds)

\* C2: after cv_start_and_join_workers returns, no two cyclically adjacent
\* entries of the store are equal, the pair (last, first) included.
C2_ProperOnReturn == Returned => Proper(store, length)

\* C3: every store index a worker reads or writes lies in its own chunk: no
\* call of any worker has touched memory outside [border[i], border[i+1]).
C3_Footprint == \A w \in DOMAIN wk : wk[w].stray = 0

\* C4: the final store of a run with cpus = k > 1 is identical to the final
\* store a run with cpus = 1 produces from the same input and round count.
C4_SameAsOneCpu ==
    (Returned /\ cpus > 1) =>
        \A r \in SoloFinals(input, length, rounds) : store = r

\* C5: at every call compute_cv(which, with) of the run *which != *with:
\* assert(xored) never fails.
C5_PreconditionHolds == fault # "assert(xored)"

\* C6: with length == cpus the run has no fault and no access outside a
\* worker's chunk, and the final store is the one of the run with cpus = 1.
C6_AllChunksOfOne ==
    (length = cpus) =>
        /\ fault = "none"
        /\ \A w \in DOMAIN wk : wk[w].stray = 0
        /\ Returned => \A r \in SoloFinals(input, length, rounds) : store = r

\* C7: for which != with, compute_cv leaves o | (b << 1) in which, b the
\* lowest set bit of the full-width which XOR with, o bit b of which.
C7_RuleResult ==
    \A k \in co.done : store[k] = RecolorRule(input[k], input[k + 1])

\* C8: for a # b and b # c, the rule applied to (a, b) and to (b, c) gives
\* different colors.
C8_LocallyProper == (co.done = {0, 1}) => store[0] # store[1]

\* C9: the snapshot of chunk i, once captured and for as long as nothing but
\* worker i's own finish phase has touched it (in buf before the launch, in
\* the worker's `following` from its creation through ramp-up and body), has
\* exactly `rounds` entries, entry j the pre-run store[(border[i+1] + j) mod
\* length], whatever has been written to the store meanwhile.
C9_SnapshotContent ==
    \A i \in DOMAIN wk :
        /\ (co.pc = "launch" /\ ~Launched(i)) =>
               buf[i] = ExpectedSnapshot(i)
        /\ wk[i].pc \in {"entry", "rampup", "body"} =>
               wk[i].following = ExpectedSnapshot(i)

\* C9 witness: the window wraps more than once (rounds > length), a worker
\* has already written to the store, and another one has just been handed
\* its snapshot.
C9_Witness ==
    /\ rounds > length
    /\ store # input
    /\ \E i \in DOMAIN wk : wk[i].pc = "entry" /\ Len(wk[i].following) = rounds

\* C10: whenever a worker has been launched or the store has been written,
\* the snapshot loop is over and every chunk's snapshot is complete: buf has
\* an entry for every chunk, of `rounds` colors unless already handed over.
C10_CaptureBeforeMutation ==
    ((\E w \in DOMAIN wk : Launched(w)) \/ store # input) =>
        /\ co.pc \in {"launch", "join", "returned"}
        /\ DOMAIN buf = 0..(cpus - 1)
        /\ \A i \in DOMAIN wk : ~Launched(i) => Len(buf[i]) = rounds

\* C10 witness: a worker writes to the store while the coordinator is still
\* launching the others.
C10_Witness == co.pc = "launch" /\ store # input

\* C11: cv_start_and_join_workers has returned only when every launched
\* worker has finished run_chunk: in a state after the return every thread is
\* past its last write, and the process is alive.
C11_JoinBarrier ==
    Returned => (fault = "none" /\ \A w \in DOMAIN wk : wk[w].pc = "done")

\* C11 witness: the call has returned from a run of several workers that
\* have changed the store.
C11_Witness == Returned /\ cpus >= 2 /\ store # input

\* C12: the blocked run_chunk, on any chunk of length >= 1 with a snapshot
\* of rounds >= 1 colors, touches only its chunk, ends only the way the
\* simple run_chunk can end, and on its return has left an array that the
\* simple run_chunk leaves on the same chunk and snapshot.
C12_BlockedAsSimple ==
    LET t == wk[co.i]
    IN /\ t.stray = 0
       /\ fault # "none" => \E e \in SimpleEndsOfChunk : e.fault = fault
       /\ (fault = "none" /\ t.pc = "done") =>
              \E e \in SimpleEndsOfChunk : e.fault = "none" /\ e.mem = store

\* C13: with rounds == 4 every statement of the unrolled body calls
\* compute_cv on the positions, and goes on to the statement, that the
\* general nested loop (the build with CV_NO_SPECIALIZE) has at the same
\* point, and the arrays run_chunk can leave are the same in both builds.
C13_UnrolledAsGeneral ==
    LET t == wk[co.i]
        g == [t EXCEPT !.no_specialize = TRUE]
        config(x) == [t |-> x, mem |-> store, fault |-> fault, build |-> build]
    IN /\ (t.pc = "body" /\ t.iterations = Specialized) =>
              /\ BodyWhich(t) = BodyWhich(g)
              /\ BodyWith(t) = BodyWith(g)
              /\ {[o EXCEPT !.t.no_specialize = TRUE] :
                      o \in BodyOutcomes(t, store, build, Room)}
                 = BodyOutcomes(g, store, build, Room)
       /\ (t.pc = "entry" /\ Len(t.following) = Specialized) =>
              Finals(config(t)) = Finals(config(g))

\* C13 witness: the unrolled body is at its last statement for a window that
\* lies in the chunk.
C13_Witness ==
    LET t == wk[co.i]
    IN /\ t.pc = "body" /\ t.iterations = Specialized /\ t.i = 1
       /\ ~t.no_specialize /\ t.stray = 0 /\ store # input

\* C14: whenever the rounds of the call split into r1 + r2 (both >= 1) such
\* that the call with r1 rounds followed by the call with r2 rounds on its
\* result always returns, the one call with r1 + r2 rounds does not die,
\* stays in its chunks, and on its return has left an array the two calls
\* leave.
C14_RoundAdditive ==
    \A r1 \in 1..(rounds - 1) :
        LET two == TwoCallEnds(input, length, cpus, r1, rounds - r1)
        IN (\A e \in two : e.fault = "none") =>
               /\ fault = "none"
               /\ \A w \in DOMAIN wk : wk[w].stray = 0
               /\ Returned => \E e \in two : e.mem = store

\* C15: once the border loop is over, whatever the length and cpus >= 1,
\* there are cpus + 1 borders, border[0] = 0, border[cpus] = length,
\* border[i] = floor(length * i / cpus), and border[i-1] <= border[i].
C15_Borders ==
    Planned =>
        /\ DOMAIN border = 0..cpus
        /\ border[0] = 0
        /\ border[cpus] = length
        /\ \A i \in 0..cpus : border[i] = (length * i) \div cpus
        /\ \A i \in 1..cpus : border[i - 1] <= border[i]

\* C16: once the border loop is over the chunks [border[i], border[i+1])
\* cover [0, length) in order without gap or overlap, two chunk sizes differ
\* by at most one, and with cpus <= length no chunk is empty.
C16_Partition ==
    Planned =>
        LET size(i) == border[i + 1] - border[i]
        IN /\ border[0] = 0 /\ border[cpus] = length
           /\ \A i \in 0..(cpus - 1) : size(i) >= 0
           /\ \A i, k \in 0..(cpus - 1) : size(i) - size(k) <= 1
           /\ cpus <= length => \A i \in 0..(cpus - 1) : size(i) >= 1

\* C17: whenever a border smaller than its predecessor has been computed
\* the process has been aborted in the border loop: no snapshot has been
\* captured, no thread created, and the store is as it was handed over.
C17_AbortIsClean ==
    (\E i \in DOMAIN border \ {0} : border[i] < border[i - 1]) =>
        /\ fault = "abort"
        /\ co.pc = "borders"
        /\ buf = <<>>
        /\ \A w \in DOMAIN wk : ~Launched(w)
        /\ store = input

\* C17 witness: the planner has aborted on a border that jumped down.
C17_Witness ==
    /\ fault = "abort"
    /\ border[co.i] < border[co.i - 1]

\* C18: a call with cpus > length does not get past the border loop: a
\* border smaller than its predecessor is found and the run is aborted.
C18_TooManyCpus == cpus > length => co.pc = "borders"

C20_Thresholds ==
    (fault = "none" /\ wk[co.i].pc = "done"
        /\ RoundsSuffice(rounds, RingWidth(input))) =>
        \A k \in DOMAIN store : store[k] \in SixColors

\* C21: from the ring [1, 2, 1, 2] a call with rounds = 1 returns with the
\* store [1, 0, 1, 0], the rule applied once to every position and its ring
\* successor's original color, with cpus = 1 and with cpus = 2 alike.
C21_Golden ==
    (Returned /\ input = Golden /\ rounds = 1) =>
        /\ store = [k \in 0..3 |-> ToBits(IF k % 2 = 0 THEN 1 ELSE 0)]
        /\ store = [k \in 0..3 |-> RecolorRule(input[k], input[(k + 1) % 4])]

\* C21 witness: the call on [1, 2, 1, 2] with one round and two chunks of
\* two nodes has returned.
C21_Witness ==
    /\ Returned /\ input = Golden /\ rounds = 1 /\ cpus = 2
    /\ border[1] = 2

\* C22: when the initializer returns on an array of length >= 2, in the
\* debug and in the NDEBUG build, whatever the generator has yielded, no two
\* neighbours are equal, and the last cell differs from the first.
C22_FillIsProper == (Filled /\ length >= 2) => Proper(store, length)

\* C23: a worker created on a chunk of length 0 is never at a call of
\* compute_cv and keeps its snapshot as it was captured; its one step is the
\* return, which changes neither the store nor any other part of the run;
\* the simple run_chunk returns the same way.
C23_EmptyChunk ==
    /\ [](\A w \in DOMAIN wk :
            (Launched(w) /\ wk[w].length = 0) =>
                /\ wk[w].pc \in {"entry", "done"}
                /\ wk[w].following = ExpectedSnapshot(w)
                /\ wk[w].stray = 0
                /\ SimpleEntryOutcomes(
                       SimpleCreated(wk[w].begin, wk[w].begin,
                                     wk[w].following), store, build)
                   = {[t |-> [Unborn EXCEPT !.pc = "done",
                                            !.begin = wk[w].begin,
                                            !.following = wk[w].following],
                       mem |-> store, fault |-> "none", build |-> build]})
    /\ [][\A w \in DOMAIN wk :
            (wk[w].pc = "entry" /\ wk[w].length = 0 /\ wk'[w] # wk[w]) =>
                /\ wk' = [wk EXCEPT ![w].pc = "done"]
                /\ UNCHANGED <<store, buf, border, co, fault, build>>]_vars

\* C23 witness: a worker of an empty chunk has returned, its snapshot in
\* hand, in a run where another worker has changed the store.
C23_Witness ==
    /\ store # input
    /\ \E w \in DOMAIN wk :
        /\ wk[w].pc = "done" /\ wk[w].length = 0
        /\ Len(wk[w].following) = rounds

\* C24: the body is only ever at a window p of 0 .. length - rounds - 1 of
\* its chunk (length the chunk's, rounds the snapshot's size): at none when
\* the chunk is no longer than rounds.
C24_BodyExtent ==
    LET t == wk[co.i]
    IN t.pc = "body" =>
           /\ t.length > t.iterations
           /\ 0 <= t.p /\ t.p <= t.length - t.iterations - 1

\* C25: on a chunk of length >= rounds, at the start of every body
\* iteration p, and with p = length - rounds when the finish phase starts,
\* the chunk's positions below p hold a color of `rounds` rounds, position
\* p + j (0 <= j < rounds) one of rounds - 1 - j rounds, and the positions
\* from p + rounds on their original color.
C25_Staircase ==
    LET t == wk[co.i]
        at(q) == store[t.begin + q]
        stair(p) ==
            /\ \A q \in 0..(p - 1) : at(q) \in Levels(t.begin + q, rounds)
            /\ \A j \in 0..(rounds - 1) :
                   at(p + j) \in Levels(t.begin + p + j, rounds - 1 - j)
            /\ \A q \in (p + rounds)..(t.length - 1) :
                   at(q) = input[t.begin + q]
    IN t.length >= rounds =>
           /\ (t.pc = "body" /\ t.i = t.iterations) => stair(t.p)
           /\ (t.pc = "assert_nonempty" /\ t.p_plus_1 = t.length) =>
                  /\ stair(t.length - rounds)
                  /\ t.following = ExpectedSnapshot(co.i)

\* C25 witness: the body starts its second window of a chunk, with three
\* rounds or more, after a first window that changed the store.
C25_Witness ==
    LET t == wk[co.i]
    IN /\ t.pc = "body" /\ t.i = t.iterations /\ t.p >= 1
       /\ rounds >= 3 /\ t.length >= rounds
       /\ fault = "none" /\ store # input

\* A worker's step from the end of a finish round: the erase.
ErasesIn(w) == wk[w].pc = "erase" /\ wk'[w] # wk[w] /\ fault' = "none"

\* C26 as stated: the entry that the erase at the end of a finish round
\* removes from the snapshot is its first entry.
C26_DropsFirst ==
    [][\A w \in DOMAIN wk :
          ErasesIn(w) => wk'[w].following = Tail(wk[w].following)]_vars

\* C26, amended: at the end of each finish round, the chunk's last position
\* updated from the snapshot's first entry and the update propagated, the
\* entry removed from the snapshot is its last entry, the others stay, in
\* the blocked and in the simple run_chunk; another finish round follows
\* unless the snapshot is now empty.
C26_DropsLast ==
    [][\A w \in DOMAIN wk :
          ErasesIn(w) =>
              LET f == wk[w].following
                  front == SubSeq(f, 1, Len(f) - 1)
              IN /\ f # <<>>
                 /\ wk'[w].following = front
                 /\ wk'[w].pc = IF front = <<>> THEN "assert_empty"
                                ELSE "assert_nonempty"
                 /\ store' = store
                 /\ \A o \in SimpleEraseOutcomes(
                                [wk[w] EXCEPT !.pc = "simple_erase"],
                                store, build) :
                        /\ o.t.following = front
                        /\ o.t.pc = "done" <=> front = <<>>]_vars

\* C26 witness: a finish round has ended with its erase, and the snapshot
\* that remains has two entries or more, the first of them updated.
C26_Witness ==
    LET t == wk[co.i]
    IN /\ t.pc = "assert_nonempty" /\ t.p_plus_1 < t.length
       /\ Len(t.following) >= 2
       /\ t.following[1] # ExpectedSnapshot(co.i)[1]
       /\ fault = "none"

\* The finish iterations a thread has completed: p_plus_1 counts down from
\* length.
FinishRoundsDone(t) == t.length - t.p_plus_1

\* C27: run_chunk on a chunk of length >= 1 with a snapshot of rounds >= 1
\* entries runs its finish loop exactly `rounds` times: neither assert on
\* the snapshot fails and the run does not die of a memory fault before the
\* loop is over; at the head of every finish iteration the snapshot is not
\* empty and has lost one entry per iteration done; after the loop it is
\* empty and `rounds` iterations are done.
C27_FinishAsserts ==
    LET t == wk[co.i]
    IN t.length >= 1 =>
           /\ fault \notin {"assert(!following.empty())",
                            "assert(following.empty())", "segv"}
           /\ t.pc = "assert_nonempty" =>
                  /\ t.following # <<>>
                  /\ Len(t.following) = rounds - FinishRoundsDone(t)
           /\ t.pc \in {"assert_empty", "done"} =>
                  /\ t.following = <<>>
                  /\ FinishRoundsDone(t) = rounds

\* C28: whenever a worker is about to call compute_cv(which, with), which
\* is a store cell or a snapshot entry that stands for a ring position q,
\* with one that stands for (q + 1) mod length, and for some k < rounds
\* which holds a color of q after k rounds and with a color of the successor
\* after k rounds; and every store cell holds a color its position has after
\* at most `rounds` rounds.
C28_Synchrony ==
    /\ \A w \in DOMAIN wk :
           (fault = "none" /\ AtCall(wk[w])) =>
               LET c == NextCall(wk[w])
                   q == PosOf(w, c.which)
                   succ == (q + 1) % length
               IN /\ Placed(w, c.which) /\ Placed(w, c.with)
                  /\ PosOf(w, c.with) = succ
                  /\ \E k \in 0..(rounds - 1) :
                         /\ ColorAt(w, c.which) \in Levels(q, k)
                         /\ ColorAt(w, c.with) \in Levels(succ, k)
    /\ \A q \in DOMAIN store : \E k \in 0..rounds : store[q] \in Levels(q, k)

\* C29: on a proper ring with 1 <= cpus <= length and rounds >= 1 the run
\* cannot stop before cv_start_and_join_workers has returned, and a worker
\* that has been created and has not returned can always take its next step,
\* whatever the other workers do.
C29_Terminates ==
    /\ Returned \/ ENABLED Next
    /\ \A w \in DOMAIN wk :
           (Launched(w) /\ wk[w].pc # "done") => ENABLED WorkerStep(w)

\* C30: whatever the interleaving of the workers' steps, a call that has
\* returned has left a store that the schedule running the threads one
\* after the other, each to its return, leaves from the same input, cpus
\* and rounds; and a call that has died can die in that schedule too.
C30_ScheduleIndependent ==
    LET seq == CallEnds(input, length, cpus, rounds)
    IN /\ Returned => \E e \in seq : e.fault = "none" /\ e.mem = store
       /\ (fault # "none" /\ co.pc = "join") =>
              \E e \in seq : e.fault # "none"

\* C30 witness: a call of two rounds with two workers has returned.
C30_Witness ==
    /\ Returned /\ cpus = 2 /\ rounds = 2
    /\ \A k \in DOMAIN store : store[k] # input[k]

\* C31: the simple run_chunk, on a chunk of any length >= 1, shorter than
\* `rounds` too, never touches a store cell outside its chunk, and when it
\* has returned every position of the chunk holds its color after `rounds`
\* synchronous ring-wide rounds of RecolorRule.
C31_SimpleIsCorrect ==
    LET t == wk[co.i]
        after == SyncRounds(input, length, rounds)
    IN /\ t.stray = 0
       /\ \A k \in DOMAIN store :
              ~(t.begin <= k /\ k < t.begin + t.length) => store[k] = input[k]
       /\ (t.pc = "done" /\ fault = "none") =>
              \A k \in t.begin..(t.begin + t.length - 1) :
                  store[k] = after[k]

\* C32: from options that cv_try_parse accepts, the fill and then
\* cv_start_and_join_workers run without a failed assertion, an abort or a
\* memory fault and without an access outside a chunk or the array; the run
\* cannot stop before the call has returned, and the fix-up loop of the fill
\* is never at a point which no value of the generator takes it out of.
C32_AcceptedIsSafe ==
    /\ fault = "none"
    /\ \A w \in DOMAIN wk : wk[w].stray = 0
    /\ Returned \/ ENABLED MainNext
    /\ co.pc = "fixup" =>
           \E v \in Generated :
               FillAfterLoop([store EXCEPT ![length - 1] = v]) = "filled"

\* C33: in the planner, whatever the length and cpus >= 1, a product
\* length * i that does not fit the index width is detected: once the
\* border loop is over without an abort no product has wrapped and every
\* border is the exact floor(length * i / cpus), and no worker is ever
\* launched on borders taken from a wrapped product, so that then
\* border[cpus] = length.
C33_OverflowDetected ==
    /\ Planned =>
           \A i \in 1..cpus :
               /\ length * i < Pow2(PlanBits)
               /\ border[i] = (length * i) \div cpus
    /\ (\E w \in DOMAIN wk : Launched(w)) =>
           /\ \A i \in 1..cpus : length * i < Pow2(PlanBits)
           /\ border[cpus] = length

====
